---- MODULE Spec2Model ----
(***************************************************************************)
(* Adversarial Time Synchronisation (lib/time_approximation/ats.py).       *)
(*                                                                         *)
(* A datetime is the number of microseconds since the epoch, a timedelta a *)
(* number of microseconds, a float number of seconds an exact fraction     *)
(* <<numerator, denominator>> in lowest terms.  The value of a 'Date'      *)
(* header is a whole number of seconds since the epoch.                    *)
(***************************************************************************)
EXTENDS Integers, Sequences, FiniteSets, TLC

VARIABLES
    rtts,       \* AdversarialTimeSynchronization.rtts
    n,          \* collect_data: the local n, the useful pairs still to collect
    pair,       \* the ATSRequestPair in use (collect_data's local, or the caller's own)
    pc,         \* position of the single thread of control
    ctx,        \* which call the running fire() belongs to
    cur,        \* which request of the pair the running fire() is on
    now,        \* the local clock read by datetime.utcnow()
    nextId,     \* identity of the next ATSRequestPair constructed
    outcome,    \* how the last finished call ended: a return value or an exception
    pre,        \* history: rtts when the running / last collect_data was called
    n0,         \* history: the n the running / last collect_data was called with
    fires,      \* how many times urlopen has been called
    sent,       \* history: identities of the pairs the running / last collect_data sent
    log,        \* history: avg_rtt of the useful pairs of the running / last collect_data
    life,       \* history: per request of the pair, where its fire() stands and how
                \* many fire() calls on it have completed
    t1, t2,     \* two remote_time values handed to the usability test
    unix_time,  \* time2uniqid: the argument unix_time
    microsecs,  \* time2uniqid: the argument microsecs
    uniqid,     \* the token: what time2uniqid returned, or what uniqid2time is given
    decoded,    \* how uniqid2time ended: the tuple returned, or the exception
    cpc         \* which of the two codec functions have been applied

vars == <<rtts, n, pair, pc, ctx, cur, now, nextId, outcome, pre, n0, fires, sent, log,
          life, t1, t2, unix_time, microsecs, uniqid, decoded, cpc>>

----------------------------------------------------------------------------
\* Bounds of the model.

\* the largest n collect_data is called with
MaxN == 2
\* how many ATSRequestPair objects are constructed in a behaviour
MaxPairs == 3
\* how many times urlopen is called in a behaviour
MaxFires == 6
\* how many times a caller holding a pair of its own has urlopen called
MaxClientFires == 2
\* the largest 'Date' header value, in seconds
MaxRemote == 2

\* timedelta.total_seconds(): microseconds in a second
MicrosPerSecond == 1000000

\* None, for a datetime attribute (datetimes are >= 0)
None == -1

\* round trip times of one urlopen call, in microseconds
Latencies == {100000, 140000}

\* the values of n collect_data is called with
Ns == -1 .. MaxN

\* values of the 'Date' header, in seconds
RemoteSeconds == 0 .. MaxRemote

----------------------------------------------------------------------------
\* Exact fractions, for float numbers of seconds.

Min(a, b) == IF a <= b THEN a ELSE b

RECURSIVE Gcd(_, _)
Gcd(a, b) == IF b = 0 THEN a ELSE Gcd(b, a % b)

Frac(num, den) == LET g == Gcd(num, den) IN
    IF g = 0 THEN <<0, 1>> ELSE <<num \div g, den \div g>>

FracAdd(x, y) == Frac(x[1] * y[2] + y[1] * x[2], x[2] * y[2])

----------------------------------------------------------------------------
\* How a call ends: a returned value or a raised exception.

Raise(e) == [kind |-> "raise", exc |-> e, type |-> "", bool |-> FALSE, num |-> 0, den |-> 1]

ReturnNone == [kind |-> "return", exc |-> "", type |-> "None", bool |-> FALSE, num |-> 0, den |-> 1]

ReturnBool(b) == [kind |-> "return", exc |-> "", type |-> "bool", bool |-> b, num |-> 0, den |-> 1]

\* a datetime or a timedelta, in microseconds
ReturnTime(t) == [kind |-> "return", exc |-> "", type |-> "time", bool |-> FALSE, num |-> t, den |-> 1]

ReturnFloat(f) == [kind |-> "return", exc |-> "", type |-> "float", bool |-> FALSE, num |-> f[1], den |-> f[2]]

\* fire() returns the request itself
ReturnSelf == [kind |-> "return", exc |-> "", type |-> "self", bool |-> FALSE, num |-> 0, den |-> 1]

NoOutcome == [kind |-> "none", exc |-> "", type |-> "", bool |-> FALSE, num |-> 0, den |-> 1]

----------------------------------------------------------------------------
\* ATSRequest

\* self.response = None
NoResponse == [kind |-> "None", lookup |-> "KeyError", date |-> 0]

\* What urlopen hands back: a response ("ok") or the caught HTTPError, each with
\* headers.  headers['Date'] either yields the header ("present", date), or raises
\* KeyError, or yields None (as the headers object of the standard library does).
Responses == [kind : {"ok", "HTTPError"}, lookup : {"present"}, date : RemoteSeconds]
    \cup [kind : {"ok", "HTTPError"}, lookup : {"KeyError", "NoneValue"}, date : {0}]

ATSRequest == [start_time |-> None, end_time |-> None, response |-> NoResponse]

\* datetime.strptime(time_str, "%a, %d %b %Y %H:%M:%S %Z"): one-second resolution
strptime(time_str) == time_str * MicrosPerSecond

remote_time_Epoch(r) ==
    IF r.response.kind = "None" THEN Raise("AttributeError")
    ELSE IF r.response.lookup # "present" THEN ReturnTime(0)
    ELSE ReturnTime(strptime(r.response.date))

remote_time_ErrorStatus(r) ==
    IF r.response.kind # "ok" THEN Raise("AttributeError")
    ELSE IF r.response.lookup = "KeyError" THEN ReturnNone
    ELSE IF r.response.lookup = "NoneValue" THEN Raise("TypeError")
    ELSE ReturnTime(strptime(r.response.date))

remote_time(r) ==
    IF r.response.kind = "None" THEN Raise("AttributeError")
    ELSE IF r.response.lookup = "KeyError" THEN ReturnNone
    ELSE IF r.response.lookup = "NoneValue" THEN Raise("TypeError")
    ELSE ReturnTime(strptime(r.response.date))

local_time_consumption_StartOnly(r) ==
    IF r.start_time = None THEN Raise("AttributeError")
    ELSE ReturnTime(r.end_time - r.start_time)

local_time_consumption(r) ==
    IF r.start_time = None \/ r.end_time = None THEN Raise("AttributeError")
    ELSE ReturnTime(r.end_time - r.start_time)

----------------------------------------------------------------------------
\* ATSRequestPair

NoPair == [id |-> 0, r1 |-> ATSRequest, r2 |-> ATSRequest]

ATSRequestPair(id) == [id |-> id, r1 |-> ATSRequest, r2 |-> ATSRequest]

SendOrder_Swapped == <<"r2", "r1">>

\* send(): the order in which the two requests are fired
SendOrder == <<"r1", "r2">>

\* int(delta.total_seconds()): truncation toward zero
TruncSeconds(delta) ==
    IF delta >= 0 THEN delta \div MicrosPerSecond
    ELSE -((-delta) \div MicrosPerSecond)

UsefulDelta_Rounded(a, b) == TruncSeconds(2 * (b - a) + MicrosPerSecond) \div 2 = 1

\* int(delta.total_seconds()) == 1, for delta = b - a
UsefulDelta(a, b) == TruncSeconds(b - a) = 1

is_useful(p) ==
    LET b == remote_time(p.r2)
        a == remote_time(p.r1)
    IN  IF b.kind = "raise" THEN b
        ELSE IF a.kind = "raise" THEN a
        ELSE IF b.type = "None" \/ a.type = "None" THEN Raise("TypeError")
        ELSE ReturnBool(UsefulDelta(a.num, b.num))

avg_rtt_Sum(p) ==
    LET a == local_time_consumption(p.r1)
        b == local_time_consumption(p.r2)
    IN  IF a.kind = "raise" THEN a
        ELSE IF b.kind = "raise" THEN b
        ELSE ReturnFloat(Frac(a.num + b.num, MicrosPerSecond))

\* sum_time_consumption.total_seconds() / 2
avg_rtt(p) ==
    LET a == local_time_consumption(p.r1)
        b == local_time_consumption(p.r2)
    IN  IF a.kind = "raise" THEN a
        ELSE IF b.kind = "raise" THEN b
        ELSE ReturnFloat(Frac(a.num + b.num, 2 * MicrosPerSecond))

----------------------------------------------------------------------------
\* AdversarialTimeSynchronization

RECURSIVE FracSum(_)
FracSum(s) == IF s = <<>> THEN <<0, 1>> ELSE FracAdd(s[1], FracSum(Tail(s)))

\* deltas = [rtt/2 for rtt in self.rtts]
Deltas(s) == [i \in 1 .. Len(s) |-> Frac(s[i][1], 2 * s[i][2])]

approximated_delta_Guarded(s) ==
    IF Len(Deltas(s)) = 0 THEN ReturnFloat(<<0, 1>>)
    ELSE LET t == FracSum(Deltas(s)) IN ReturnFloat(Frac(t[1], t[2] * Len(Deltas(s))))

approximated_delta_NoHalf(s) ==
    IF Len(s) = 0 THEN Raise("ZeroDivisionError")
    ELSE LET t == FracSum(s) IN ReturnFloat(Frac(t[1], t[2] * Len(s)))

\* sum(deltas) / len(deltas)
approximated_delta(s) ==
    IF Len(Deltas(s)) = 0 THEN Raise("ZeroDivisionError")
    ELSE LET t == FracSum(Deltas(s)) IN ReturnFloat(Frac(t[1], t[2] * Len(Deltas(s))))

----------------------------------------------------------------------------
\* The uniqid codec (lib/php/utils.py).  A string is a sequence of characters; an
\* int that may need more than 31 bits is a pair <<hi, lo>>, hi * 65536 + lo.

HexLower == <<"0", "1", "2", "3", "4", "5", "6", "7", "8", "9", "a", "b", "c", "d", "e", "f">>

HexUpper == <<"0", "1", "2", "3", "4", "5", "6", "7", "8", "9", "A", "B", "C", "D", "E", "F">>

IsHexDigit(c) == \E i \in 1 .. 16 : HexLower[i] = c \/ HexUpper[i] = c

DigitValue(c) == (CHOOSE i \in 1 .. 16 : HexLower[i] = c \/ HexUpper[i] = c) - 1

\* the digits of hex(k), for 0 <= k < 2^31
RECURSIVE HexNat(_)
HexNat(k) == IF k < 16 THEN <<HexLower[k + 1]>>
             ELSE HexNat(k \div 16) \o <<HexLower[(k % 16) + 1]>>

\* str.zfill(width), for a string without sign
zfill(str, width) ==
    IF Len(str) >= width THEN str
    ELSE [i \in 1 .. (width - Len(str)) |-> "0"] \o str

\* hex(x), for x >= 0
hex(x) ==
    <<"0", "x">> \o (IF x[1] = 0 THEN HexNat(x[2]) ELSE HexNat(x[1]) \o zfill(HexNat(x[2]), 4))

\* str[k:], k >= 0
From(str, k) == SubSeq(str, k + 1, Len(str))

\* str[:k], k >= 0
UpTo(str, k) == SubSeq(str, 1, Min(k, Len(str)))

\* str[-k:], k > 0
Last(str, k) == SubSeq(str, Len(str) - Min(k, Len(str)) + 1, Len(str))

time2uniqid_NoPad(s, u) == From(hex(s), 2) \o From(hex(u), 2)

\* hex(unix_time)[2:].zfill(8) + hex(microsecs)[2:].zfill(5)
time2uniqid(s, u) == zfill(From(hex(s), 2), 8) \o zfill(From(hex(u), 2), 5)

Whitespace == {" "}

RECURSIVE LStrip(_)
LStrip(str) == IF str # <<>> /\ str[1] \in Whitespace THEN LStrip(Tail(str)) ELSE str

RECURSIVE RStrip(_)
RStrip(str) == IF str # <<>> /\ str[Len(str)] \in Whitespace
               THEN RStrip(SubSeq(str, 1, Len(str) - 1)) ELSE str

\* the value of a string of hexadecimal digits and underscores, most significant first
RECURSIVE Accum(_, _)
Accum(str, acc) ==
    IF str = <<>> THEN acc
    ELSE IF str[1] = "_" THEN Accum(Tail(str), acc)
    ELSE LET low == acc[2] * 16 + DigitValue(str[1])
         IN  Accum(Tail(str), <<acc[1] * 16 + low \div 65536, low % 65536>>)

\* digits, with single underscores between digits only
WellFormedDigits(str) ==
    /\ str # <<>>
    /\ \A i \in 1 .. Len(str) : IsHexDigit(str[i]) \/ str[i] = "_"
    /\ str[1] # "_"
    /\ str[Len(str)] # "_"
    /\ \A i \in 1 .. Len(str) - 1 : ~(str[i] = "_" /\ str[i + 1] = "_")

IntValue(neg, val) == [kind |-> "return", neg |-> neg /\ val # <<0, 0>>, val |-> val]

ValueError == [kind |-> "raise", neg |-> FALSE, val |-> <<0, 0>>]

\* int(str, 16): surrounding whitespace, a sign, a 0x prefix (and one underscore
\* after it) are accepted before the digits
int16(str) ==
    LET stripped == RStrip(LStrip(str))
        signed == stripped # <<>> /\ stripped[1] \in {"+", "-"}
        neg == signed /\ stripped[1] = "-"
        unsigned == IF signed THEN Tail(stripped) ELSE stripped
        prefixed == Len(unsigned) >= 2 /\ unsigned[1] = "0" /\ unsigned[2] \in {"x", "X"}
        afterPrefix == IF prefixed THEN From(unsigned, 2) ELSE unsigned
        digits == IF prefixed /\ afterPrefix # <<>> /\ afterPrefix[1] = "_"
                  THEN Tail(afterPrefix) ELSE afterPrefix
    IN  IF WellFormedDigits(digits) THEN IntValue(neg, Accum(digits, <<0, 0>>))
        ELSE ValueError

NotDecoded == [kind |-> "none", unix_time |-> IntValue(FALSE, <<0, 0>>),
               microsecs |-> IntValue(FALSE, <<0, 0>>)]

Decoded(a, b) ==
    IF a.kind = "raise" \/ b.kind = "raise"
    THEN [kind |-> "raise", unix_time |-> ValueError, microsecs |-> ValueError]
    ELSE [kind |-> "return", unix_time |-> a, microsecs |-> b]

uniqid2time_Wide(token) == Decoded(int16(UpTo(token, 8)), int16(Last(token, 6)))

uniqid2time_Checked(token) ==
    IF Len(token) < 13
    THEN [kind |-> "raise", unix_time |-> ValueError, microsecs |-> ValueError]
    ELSE Decoded(int16(UpTo(token, 8)), int16(Last(token, 5)))

\* unix_time = uniqid[:8]; microsecs = uniqid[-5:]
\* return int(unix_time, 16), int(microsecs, 16)
uniqid2time(token) == Decoded(int16(UpTo(token, 8)), int16(Last(token, 5)))

----------------------------------------------------------------------------
\* the history of a pair just constructed: neither request fired
NewLife == [r1 |-> [state |-> "Unfired", done |-> 0], r2 |-> [state |-> "Unfired", done |-> 0]]

\* The state after AdversarialTimeSynchronization(url): no samples, nothing running.

Init ==
    /\ rtts = <<>>
    /\ n = 0
    /\ pair = NoPair
    /\ pc = "idle"
    /\ ctx = "none"
    /\ cur = "r1"
    /\ now = 0
    /\ nextId = 1
    /\ outcome = NoOutcome
    /\ pre = <<>>
    /\ n0 = 0
    /\ fires = 0
    /\ sent = <<>>
    /\ log = <<>>
    /\ life = NewLife
    /\ t1 = 0
    /\ t2 = 0
    /\ unix_time = <<0, 0>>
    /\ microsecs = <<0, 0>>
    /\ uniqid = <<>>
    /\ decoded = NotDecoded
    /\ cpc = "none"

session == <<rtts, n, pre, n0, log>>
delta == <<t1, t2, unix_time, microsecs, uniqid, decoded, cpc>>

\* position of a request in the order send() fires them
Pos(c) == CHOOSE k \in 1 .. 2 : SendOrder[k] = c

----------------------------------------------------------------------------
\* ATSRequest.fire(), one step per statement.

FireStart_Shared ==
    /\ pc = "fire_start"
    /\ pair' = [pair EXCEPT !.r1.start_time = now, !.r2.start_time = now]
    /\ life' = [life EXCEPT ![cur].state = "Firing"]
    /\ pc' = "fire_urlopen"
    /\ UNCHANGED <<session, ctx, cur, now, nextId, outcome, fires, sent, delta>>

\* self.start_time = datetime.utcnow()
FireStart ==
    /\ pc = "fire_start"
    /\ pair' = [pair EXCEPT ![cur].start_time = now]
    /\ life' = [life EXCEPT ![cur].state = "Firing"]
    /\ pc' = "fire_urlopen"
    /\ UNCHANGED <<session, ctx, cur, now, nextId, outcome, fires, sent, delta>>

\* self.response = urllib.request.urlopen(self.url), or the HTTPError caught
FireResponse ==
    /\ pc = "fire_urlopen"
    /\ \E resp \in Responses, lat \in Latencies :
        /\ pair' = [pair EXCEPT ![cur].response = resp]
        /\ now' = now + lat
    /\ pc' = "fire_end"
    /\ UNCHANGED <<session, ctx, cur, nextId, outcome, fires, sent, life, delta>>

FireTransportFails_Retried ==
    /\ pc = "fire_urlopen"
    /\ \E lat \in Latencies : now' = now + lat
    /\ pc' = IF ctx = "collect_data" THEN "cd_while" ELSE "idle"
    /\ outcome' = IF ctx = "collect_data" THEN outcome ELSE Raise("URLError")
    /\ pair' = IF ctx = "collect_data" THEN NoPair ELSE pair
    /\ life' = IF ctx = "collect_data" THEN NewLife ELSE [life EXCEPT ![cur].state = "Failed"]
    /\ UNCHANGED <<session, ctx, cur, nextId, fires, sent, delta>>

FireTransportFails_Finally ==
    /\ pc = "fire_urlopen"
    /\ \E lat \in Latencies : now' = now + lat
    /\ pc' = "idle"
    /\ outcome' = Raise("URLError")
    /\ pair' = IF ctx = "collect_data" THEN NoPair ELSE [pair EXCEPT ![cur].end_time = now']
    /\ life' = IF ctx = "collect_data" THEN NewLife ELSE [life EXCEPT ![cur].state = "Failed"]
    /\ UNCHANGED <<session, ctx, cur, nextId, fires, sent, delta>>

\* urlopen raises an exception that is no HTTPError (connection, DNS, timeout):
\* nothing catches it, neither fire() nor send() nor collect_data
FireTransportFails ==
    /\ pc = "fire_urlopen"
    /\ \E lat \in Latencies : now' = now + lat
    /\ pc' = "idle"
    /\ outcome' = Raise("URLError")
    /\ pair' = IF ctx = "collect_data" THEN NoPair ELSE pair
    /\ life' = IF ctx = "collect_data" THEN NewLife ELSE [life EXCEPT ![cur].state = "Failed"]
    /\ UNCHANGED <<session, ctx, cur, nextId, fires, sent, delta>>

\* self.end_time = datetime.utcnow(); return self -- and what the caller does next
FireEnd ==
    /\ pc = "fire_end"
    /\ pair' = [pair EXCEPT ![cur].end_time = now]
    /\ life' = [life EXCEPT ![cur] = [state |-> "Fired", done |-> 1]]
    /\ IF ctx = "fire"
       THEN /\ pc' = "idle"
            /\ outcome' = ReturnSelf
            /\ UNCHANGED <<cur, fires>>
       ELSE IF Pos(cur) = 1
       THEN /\ fires < MaxFires
            /\ cur' = SendOrder[2]
            /\ pc' = "fire_start"
            /\ fires' = fires + 1
            /\ UNCHANGED outcome
       ELSE IF ctx = "send"
       THEN /\ pc' = "idle"
            /\ outcome' = ReturnNone
            /\ UNCHANGED <<cur, fires>>
       ELSE /\ pc' = "cd_useful"
            /\ UNCHANGED <<cur, fires, outcome>>
    /\ UNCHANGED <<session, ctx, now, nextId, sent, delta>>

----------------------------------------------------------------------------
\* AdversarialTimeSynchronization.collect_data(n)

CallCollectData_Resets ==
    /\ pc = "idle"
    /\ \E k \in Ns :
        /\ n' = k
        /\ n0' = k
    /\ rtts' = <<>>
    /\ pre' = rtts
    /\ log' = <<>>
    /\ pc' = "cd_while"
    /\ ctx' = "collect_data"
    /\ outcome' = NoOutcome
    /\ pair' = NoPair
    /\ life' = NewLife
    /\ sent' = <<>>
    /\ UNCHANGED <<cur, now, nextId, fires, delta>>

CallCollectData ==
    /\ pc = "idle"
    /\ \E k \in Ns :
        /\ n' = k
        /\ n0' = k
    /\ pre' = rtts
    /\ log' = <<>>
    /\ pc' = "cd_while"
    /\ ctx' = "collect_data"
    /\ outcome' = NoOutcome
    /\ pair' = NoPair
    /\ life' = NewLife
    /\ sent' = <<>>
    /\ UNCHANGED <<rtts, cur, now, nextId, fires, delta>>

CdLoopEnter_NotZero ==
    /\ pc = "cd_while"
    /\ n # 0
    /\ nextId <= MaxPairs
    /\ fires < MaxFires
    /\ pair' = ATSRequestPair(nextId)
    /\ nextId' = nextId + 1
    /\ sent' = Append(sent, nextId)
    /\ cur' = SendOrder[1]
    /\ fires' = fires + 1
    /\ pc' = "fire_start"
    /\ life' = NewLife
    /\ UNCHANGED <<session, ctx, now, outcome, delta>>

\* while n > 0: pair = ATSRequestPair(self.url); pair.send()
CdLoopEnter ==
    /\ pc = "cd_while"
    /\ n > 0
    /\ nextId <= MaxPairs
    /\ fires < MaxFires
    /\ pair' = ATSRequestPair(nextId)
    /\ nextId' = nextId + 1
    /\ sent' = Append(sent, nextId)
    /\ cur' = SendOrder[1]
    /\ fires' = fires + 1
    /\ pc' = "fire_start"
    /\ life' = NewLife
    /\ UNCHANGED <<session, ctx, now, outcome, delta>>

\* while n > 0 is false: collect_data returns
CdReturn ==
    /\ pc = "cd_while"
    /\ ~(n > 0)
    /\ pc' = "idle"
    /\ outcome' = ReturnNone
    /\ pair' = NoPair
    /\ life' = NewLife
    /\ UNCHANGED <<session, ctx, cur, now, nextId, fires, sent, delta>>

\* if pair.is_useful(): the test raises, and nothing catches it
CdUsefulRaises ==
    /\ pc = "cd_useful"
    /\ is_useful(pair).kind = "raise"
    /\ pc' = "idle"
    /\ outcome' = is_useful(pair)
    /\ pair' = NoPair
    /\ life' = NewLife
    /\ UNCHANGED <<session, ctx, cur, now, nextId, fires, sent, delta>>

CdAppend_FirstRtt ==
    /\ pc = "cd_useful"
    /\ is_useful(pair).kind = "return"
    /\ is_useful(pair).bool
    /\ avg_rtt(pair).kind = "return"
    /\ rtts' = Append(rtts, Frac(local_time_consumption(pair.r1).num, MicrosPerSecond))
    /\ log' = Append(log, <<avg_rtt(pair).num, avg_rtt(pair).den>>)
    /\ n' = n - 1
    /\ pc' = "cd_while"
    /\ UNCHANGED <<pair, pre, n0, ctx, cur, now, nextId, outcome, fires, sent, life, delta>>

CdAppend_NoDecrement ==
    /\ pc = "cd_useful"
    /\ is_useful(pair).kind = "return"
    /\ is_useful(pair).bool
    /\ avg_rtt(pair).kind = "return"
    /\ rtts' = Append(rtts, <<avg_rtt(pair).num, avg_rtt(pair).den>>)
    /\ log' = Append(log, <<avg_rtt(pair).num, avg_rtt(pair).den>>)
    /\ pc' = "cd_while"
    /\ UNCHANGED <<n, pair, pre, n0, ctx, cur, now, nextId, outcome, fires, sent, life, delta>>

\* if pair.is_useful(): self.rtts.append(pair.avg_rtt); n -= 1
CdAppend ==
    /\ pc = "cd_useful"
    /\ is_useful(pair).kind = "return"
    /\ is_useful(pair).bool
    /\ avg_rtt(pair).kind = "return"
    /\ rtts' = Append(rtts, <<avg_rtt(pair).num, avg_rtt(pair).den>>)
    /\ log' = Append(log, <<avg_rtt(pair).num, avg_rtt(pair).den>>)
    /\ n' = n - 1
    /\ pc' = "cd_while"
    /\ UNCHANGED <<pair, pre, n0, ctx, cur, now, nextId, outcome, fires, sent, life, delta>>

CdDiscard_Counts ==
    /\ pc = "cd_useful"
    /\ is_useful(pair).kind = "return"
    /\ ~is_useful(pair).bool
    /\ n' = n - 1
    /\ pc' = "cd_while"
    /\ UNCHANGED <<rtts, pre, n0, log, pair, ctx, cur, now, nextId, outcome, fires, sent, life, delta>>

CdDiscard_GivesUp ==
    /\ pc = "cd_useful"
    /\ is_useful(pair).kind = "return"
    /\ ~is_useful(pair).bool
    /\ pc' = IF Len(sent) >= 2 THEN "idle" ELSE "cd_while"
    /\ outcome' = IF Len(sent) >= 2 THEN ReturnNone ELSE outcome
    /\ UNCHANGED <<session, pair, ctx, cur, now, nextId, fires, sent, life, delta>>

\* if pair.is_useful() is false: nothing is done with the pair
CdDiscard ==
    /\ pc = "cd_useful"
    /\ is_useful(pair).kind = "return"
    /\ ~is_useful(pair).bool
    /\ pc' = "cd_while"
    /\ UNCHANGED <<session, pair, ctx, cur, now, nextId, outcome, fires, sent, life, delta>>

\* AdversarialTimeSynchronization.approximated_delta
CallApproximatedDelta ==
    /\ pc = "idle"
    /\ outcome' = approximated_delta(rtts)
    /\ ctx' = "approximated_delta"
    /\ UNCHANGED <<session, pair, pc, cur, now, nextId, fires, sent, life, delta>>

Next ==
    \/ CallCollectData
    \/ CdLoopEnter
    \/ CdReturn
    \/ FireStart
    \/ FireResponse
    \/ FireTransportFails
    \/ FireEnd
    \/ CdUsefulRaises
    \/ CdAppend
    \/ CdDiscard
    \/ CallApproximatedDelta

Spec == Init /\ [][Next]_vars

----------------------------------------------------------------------------
\* The session against a transport that never fails, always sends a 'Date' header
\* and keeps producing useful pairs: within the pairs a behaviour may construct,
\* it leaves room for the useful pairs the running call still needs.

\* complete pairs that can still be constructed and sent
PairsLeft == Min(MaxPairs - (nextId - 1), (MaxFires - 2 * (nextId - 1)) \div 2)

\* collect_data(n) is called with an n the transport can still serve
LiveCall ==
    /\ CallCollectData
    /\ n' <= PairsLeft

\* urlopen answers with a 'Date' header; when no further unusable pair can be
\* afforded, the pair in flight comes out useful
LiveResponse ==
    /\ FireResponse
    /\ pair'[cur].response.lookup = "present"
    /\ PairsLeft < n =>
        IF cur = "r1"
        THEN pair'.r1.response.date < MaxRemote
        ELSE pair'.r2.response.date = pair'.r1.response.date + 1

NextLive ==
    \/ LiveCall
    \/ CdLoopEnter
    \/ CdReturn
    \/ FireStart
    \/ LiveResponse
    \/ FireEnd
    \/ CdAppend
    \/ CdDiscard
    \/ CallApproximatedDelta

\* the single thread of control keeps running: every blocking call comes back
SpecLive == Init /\ [][NextLive]_vars /\ WF_vars(NextLive)

----------------------------------------------------------------------------
\* A caller holding an ATSRequestPair of its own and calling its methods, and
\* those of its two requests, in any order.

\* ATSRequestPair(url)
NewPair ==
    /\ pc = "idle"
    /\ nextId <= MaxPairs
    /\ pair' = ATSRequestPair(nextId)
    /\ nextId' = nextId + 1
    /\ life' = NewLife
    /\ ctx' = "ATSRequestPair"
    /\ outcome' = NoOutcome
    /\ UNCHANGED <<session, pc, cur, now, fires, sent, delta>>

\* pair.send()
CallSend ==
    /\ pc = "idle"
    /\ pair.id # 0
    /\ fires < MaxClientFires
    /\ ctx' = "send"
    /\ cur' = SendOrder[1]
    /\ fires' = fires + 1
    /\ pc' = "fire_start"
    /\ outcome' = NoOutcome
    /\ UNCHANGED <<session, pair, now, nextId, sent, life, delta>>

\* pair.r1.fire() or pair.r2.fire()
CallFire ==
    /\ pc = "idle"
    /\ pair.id # 0
    /\ fires < MaxClientFires
    /\ ctx' = "fire"
    /\ \E r \in {"r1", "r2"} : cur' = r
    /\ fires' = fires + 1
    /\ pc' = "fire_start"
    /\ outcome' = NoOutcome
    /\ UNCHANGED <<session, pair, now, nextId, sent, life, delta>>

\* pair.is_useful()
CallIsUseful ==
    /\ pc = "idle"
    /\ pair.id # 0
    /\ ctx' = "is_useful"
    /\ outcome' = is_useful(pair)
    /\ UNCHANGED <<session, pair, pc, cur, now, nextId, fires, sent, life, delta>>

\* pair.avg_rtt
CallAvgRtt ==
    /\ pc = "idle"
    /\ pair.id # 0
    /\ ctx' = "avg_rtt"
    /\ outcome' = avg_rtt(pair)
    /\ UNCHANGED <<session, pair, pc, cur, now, nextId, fires, sent, life, delta>>

\* pair.r1.remote_time or pair.r2.remote_time
CallRemoteTime ==
    /\ pc = "idle"
    /\ pair.id # 0
    /\ ctx' = "remote_time"
    /\ \E r \in {"r1", "r2"} :
        /\ cur' = r
        /\ outcome' = remote_time(pair[r])
    /\ UNCHANGED <<session, pair, pc, now, nextId, fires, sent, life, delta>>

\* pair.r1.local_time_consumption or pair.r2.local_time_consumption
CallLocalTimeConsumption ==
    /\ pc = "idle"
    /\ pair.id # 0
    /\ ctx' = "local_time_consumption"
    /\ \E r \in {"r1", "r2"} :
        /\ cur' = r
        /\ outcome' = local_time_consumption(pair[r])
    /\ UNCHANGED <<session, pair, pc, now, nextId, fires, sent, life, delta>>

NextPair ==
    \/ NewPair
    \/ CallSend
    \/ CallFire
    \/ FireStart
    \/ FireResponse
    \/ FireTransportFails
    \/ FireEnd
    \/ CallIsUseful
    \/ CallAvgRtt
    \/ CallRemoteTime
    \/ CallLocalTimeConsumption

SpecPair == Init /\ [][NextPair]_vars

----------------------------------------------------------------------------
\* The usability test of is_useful() on any two datetimes, microseconds included.

Datetimes == {0, 1, 500000, 999000, 999999, 1000000, 1000001, 1500000,
              1999000, 1999999, 2000000, 2000001, 2999000, 3000000}

InitDelta ==
    /\ rtts = <<>>
    /\ n = 0
    /\ pair = NoPair
    /\ pc = "idle"
    /\ ctx = "none"
    /\ cur = "r1"
    /\ now = 0
    /\ nextId = 1
    /\ outcome = NoOutcome
    /\ pre = <<>>
    /\ n0 = 0
    /\ fires = 0
    /\ sent = <<>>
    /\ log = <<>>
    /\ life = NewLife
    /\ t1 \in Datetimes
    /\ t2 \in Datetimes
    /\ unix_time = <<0, 0>>
    /\ microsecs = <<0, 0>>
    /\ uniqid = <<>>
    /\ decoded = NotDecoded
    /\ cpc = "none"

\* delta = t2 - t1; int(delta.total_seconds()) == 1
JudgeDelta ==
    /\ ctx = "none"
    /\ ctx' = "is_useful"
    /\ outcome' = ReturnBool(UsefulDelta(t1, t2))
    /\ UNCHANGED <<session, pair, pc, cur, now, nextId, fires, sent, life, delta>>

NextDelta == JudgeDelta

SpecDelta == InitDelta /\ [][NextDelta]_vars

----------------------------------------------------------------------------
\* The uniqid codec on sample arguments and sample tokens.

\* 0, 1, 0xffff, 0x10000, 0x5f5e1000, 0xffffffff, and 0x100000000 (too large)
SampleSeconds == {<<0, 0>>, <<0, 1>>, <<0, 65535>>, <<1, 0>>, <<24414, 4096>>,
                  <<65535, 65535>>, <<65536, 0>>}

\* 0, 1, 0x12345, 0xfffff, and 0x100000 (too large)
SampleMicros == {<<0, 0>>, <<0, 1>>, <<1, 9029>>, <<15, 65535>>, <<16, 0>>}

\* 5f5e100012345 and 0000000100001
WholeTokens == {<<"5", "f", "5", "e", "1", "0", "0", "0", "1", "2", "3", "4", "5">>,
                <<"0", "0", "0", "0", "0", "0", "0", "1", "0", "0", "0", "0", "1">>}

\* characters that are no lowercase hexadecimal digit
OddChars == {"g", "x", "_", "+", "-", " ", "F"}

\* the more_entropy form: characters between the seconds and the microseconds
Middles == {<<"a", "b">>, <<"g", "." >>}

SampleTokens ==
    {UpTo(w, k) : w \in WholeTokens, k \in 0 .. 13}
        \cup {UpTo(w, 8) \o m \o Last(w, 5) : w \in WholeTokens, m \in Middles}
        \cup {[w EXCEPT ![p] = c] : w \in WholeTokens, p \in 1 .. 13, c \in OddChars}
        \cup {<<"0", "x", "1", "f">>, <<"-", "1">>, <<"1", "_", "0">>, <<" ", "7", " ">>}

InitCodec ==
    /\ rtts = <<>>
    /\ n = 0
    /\ pair = NoPair
    /\ pc = "idle"
    /\ ctx = "none"
    /\ cur = "r1"
    /\ now = 0
    /\ nextId = 1
    /\ outcome = NoOutcome
    /\ pre = <<>>
    /\ n0 = 0
    /\ fires = 0
    /\ sent = <<>>
    /\ log = <<>>
    /\ life = NewLife
    /\ t1 = 0
    /\ t2 = 0
    /\ decoded = NotDecoded
    /\ \/ /\ cpc = "args"
          /\ unix_time \in SampleSeconds
          /\ microsecs \in SampleMicros
          /\ uniqid = <<>>
       \/ /\ cpc = "token"
          /\ unix_time = <<0, 0>>
          /\ microsecs = <<0, 0>>
          /\ uniqid \in SampleTokens

\* uniqid = time2uniqid(unix_time, microsecs)
CallTime2Uniqid ==
    /\ cpc = "args"
    /\ cpc' = "encoded"
    /\ uniqid' = time2uniqid(unix_time, microsecs)
    /\ UNCHANGED <<session, pair, pc, ctx, cur, now, nextId, outcome, fires, sent, life,
                   t1, t2, unix_time, microsecs, decoded>>

\* uniqid2time(uniqid), of a token given or of the token time2uniqid returned
CallUniqid2Time ==
    /\ cpc \in {"encoded", "token"}
    /\ cpc' = IF cpc = "encoded" THEN "roundtrip" ELSE "decoded"
    /\ decoded' = uniqid2time(uniqid)
    /\ UNCHANGED <<session, pair, pc, ctx, cur, now, nextId, outcome, fires, sent, life,
                   t1, t2, unix_time, microsecs, uniqid>>

NextCodec ==
    \/ CallTime2Uniqid
    \/ CallUniqid2Time

SpecCodec == InitCodec /\ [][NextCodec]_vars

----------------------------------------------------------------------------
\* Properties.

IsPrefix(s, t) == Len(s) <= Len(t) /\ SubSeq(t, 1, Len(s)) = s

\* collect_data has returned (it did not raise) and nothing was called since
Returned == pc = "idle" /\ ctx = "collect_data" /\ outcome = ReturnNone

\* collect_data has raised and nothing was called since
Raised == pc = "idle" /\ ctx = "collect_data" /\ outcome.kind = "raise"

\* C1: when collect_data(n), n >= 1, returns, rtts is what it was at the call
\* followed by exactly n new samples, however many pairs were sent meanwhile.
C1_ReturnAppendsExactlyN ==
    (Returned /\ n0 >= 1) =>
        /\ Len(rtts) = Len(pre) + n0
        /\ SubSeq(rtts, 1, Len(pre)) = pre

\* a second call that returned after sending an unusable pair and a useful one
C1_Witness ==
    /\ Returned
    /\ n0 = 1
    /\ Len(pre) = 1
    /\ Len(sent) = 2
    /\ Len(rtts) = 2

\* C2: at every step the earlier rtts is a prefix of the later rtts.
C2_AppendOnly == [][IsPrefix(rtts, rtts')]_vars

\* a call that raised after it had appended, in a session that held a sample before
C2_Witness ==
    /\ Raised
    /\ Len(pre) >= 1
    /\ Len(rtts) > Len(pre)

NoDuplicates(s) == \A i, j \in 1 .. Len(s) : s[i] = s[j] => i = j

\* C4: rtts changes only by appending the avg_rtt of a pair judged useful; a pair
\* judged not useful leaves rtts and n as they are; no pair is sent twice; the
\* samples a call appended are the avg_rtt values of its useful pairs, in order.
C4_OnlyUsefulPairsAppended ==
    /\ [][/\ rtts' # rtts =>
                /\ pc = "cd_useful"
                /\ is_useful(pair) = ReturnBool(TRUE)
                /\ avg_rtt(pair).kind = "return"
                /\ rtts' = Append(rtts, <<avg_rtt(pair).num, avg_rtt(pair).den>>)
                /\ n' = n - 1
          /\ (pc = "cd_useful" /\ is_useful(pair) = ReturnBool(FALSE)) =>
                /\ rtts' = rtts
                /\ n' = n
                /\ pc' = "cd_while"
          /\ (pc = "cd_while" /\ pc' = "fire_start") =>
                /\ pair'.id # pair.id
                /\ pair'.r1 = ATSRequest
                /\ pair'.r2 = ATSRequest
        ]_vars
    /\ [](ctx = "collect_data" => (NoDuplicates(sent) /\ rtts = pre \o log))

\* a call in which one pair was discarded and another one gave a sample
C4_Witness ==
    /\ ctx = "collect_data"
    /\ pc = "cd_while"
    /\ Len(sent) = 2
    /\ Len(log) = 1
    /\ rtts = pre \o log

Firing == {"fire_start", "fire_urlopen", "fire_end"}

\* C5: send() starts with the first request; the second request's fire() starts
\* only as the step after the first one's fire() has recorded its end time, with a
\* response recorded; a fire() of the first request that raises ends send() with
\* the second request untouched.
C5_SendIsSequential ==
    [][/\ (pc = "idle" /\ ctx' = "send") => (pc' = "fire_start" /\ cur' = "r1")
       /\ (ctx' = "send" /\ pc' = "fire_start" /\ cur' = "r2" /\ pc # "fire_start") =>
            /\ pc = "fire_end"
            /\ cur = "r1"
            /\ pair'.r1.end_time # None
            /\ pair'.r1.response # NoResponse
            /\ life'.r1.state = "Fired"
            /\ pair'.r2 = pair.r2
       /\ (ctx = "send" /\ pc \in Firing /\ cur = "r1" /\ outcome'.kind = "raise") =>
            /\ pc' = "idle"
            /\ pair'.r2 = pair.r2
            /\ life'.r2 = life.r2
       /\ (ctx = "send" /\ pc \in Firing /\ pc' \in Firing) =>
            (cur' = cur \/ (cur = "r1" /\ cur' = "r2"))
      ]_vars

\* a send() on a new pair whose first request failed: the second was never fired
C5_Witness ==
    /\ ctx = "send"
    /\ pc = "idle"
    /\ outcome = Raise("URLError")
    /\ life.r1.state = "Failed"
    /\ pair.r1.start_time # None
    /\ life.r2 = [state |-> "Unfired", done |-> 0]
    /\ pair.r2 = ATSRequest

Requests == {"r1", "r2"}

\* fire() was never called on the request, or no fire() of it has completed
NeverFired(r) == life[r].done = 0

\* C6 as stated: once a fire() of a request has completed, no step changes the
\* request's start time, end time or response.
C6_FiredRequestNeverChanges ==
    [][\A r \in Requests :
        (life[r].done = 1 /\ pair'.id = pair.id) => pair'[r] = pair[r]]_vars

\* C6 amended: once a fire() of a request has completed, its start time, end time
\* and response change only in the steps of a further fire() of that same request;
\* remote_time, local_time_consumption, is_useful and avg_rtt change nothing.
C6_FiredRequestChangesOnlyByFire ==
    [][/\ \A r \in Requests :
            (life[r].done = 1 /\ pair'.id = pair.id /\ pair'[r] # pair[r]) =>
                (pc \in Firing /\ cur = r /\ ctx \in {"fire", "send"})
       /\ ctx' \in {"remote_time", "local_time_consumption", "is_useful", "avg_rtt"} =>
            (pair' = pair /\ life' = life)
      ]_vars

\* both requests fired, then read through the pair
C6_Witness ==
    /\ pc = "idle"
    /\ ctx = "is_useful"
    /\ life.r1 = [state |-> "Fired", done |-> 1]
    /\ life.r2 = [state |-> "Fired", done |-> 1]
    /\ outcome.kind = "return"

\* C7: approximated_delta on a session without samples raises, and changes nothing
\* of the session.
C7_EmptyDeltaRaises ==
    [][(ctx' = "approximated_delta" /\ rtts = <<>>) =>
            /\ outcome' = Raise("ZeroDivisionError")
            /\ rtts' = rtts
            /\ pc' = "idle"
            /\ UNCHANGED <<n, pair, nextId, fires>>
      ]_vars

C7_Witness ==
    /\ ctx = "approximated_delta"
    /\ rtts = <<>>
    /\ outcome = Raise("ZeroDivisionError")

\* the request has a response, and the response has no 'Date' header
NoDateHeader(r) == pair[r].response.kind # "None" /\ pair[r].response.lookup # "present"

C9_NothingBeforeFired ==
    pc = "idle" =>
        /\ (ctx = "local_time_consumption" /\ NeverFired(cur)) =>
                outcome = Raise("AttributeError")
        /\ (ctx = "avg_rtt" /\ \E r \in Requests : NeverFired(r)) =>
                outcome = Raise("AttributeError")
        /\ (ctx = "is_useful" /\ \E r \in Requests : NeverFired(r)) =>
                /\ outcome.kind = "raise"
                /\ outcome.exc \in {"AttributeError", "TypeError"}

\* avg_rtt of a pair whose first request was fired and whose second failed
C9_Witness ==
    /\ pc = "idle"
    /\ ctx = "avg_rtt"
    /\ life.r1 = [state |-> "Fired", done |-> 1]
    /\ life.r2 = [state |-> "Failed", done |-> 0]
    /\ outcome = Raise("AttributeError")

\* C10: in collect_data, a urlopen that gives no response and a usability test
\* that raises end the call at once with that exception; no sample is appended,
\* no further pair is sent, and the samples appended so far stay.
C10_ErrorsEndCollectData ==
    /\ [][/\ (ctx = "collect_data" /\ pc = "fire_urlopen" /\ pc' # "fire_end") =>
                /\ pc' = "idle"
                /\ outcome' = Raise("URLError")
                /\ rtts' = rtts
                /\ sent' = sent
          /\ (ctx = "collect_data" /\ pc = "cd_useful" /\ is_useful(pair).kind = "raise") =>
                /\ pc' = "idle"
                /\ outcome' = is_useful(pair)
                /\ rtts' = rtts
                /\ sent' = sent
        ]_vars
    /\ [](Raised => (rtts = pre \o log /\ Len(log) < n0 /\ n = n0 - Len(log)))

\* a call that raised after it had appended a sample
C10_Witness ==
    /\ Raised
    /\ Len(log) >= 1
    /\ rtts = pre \o log

\* the request's response, had it come with a success status
AsSuccess(r) == [r EXCEPT !.response.kind = "ok"]

\* C11: a fire() whose urlopen raised HTTPError goes on like one that got a
\* response: it records the error as the response and then the end time; the fired
\* request has start time, end time and a response whose remote_time reads as for
\* a success status; is_useful is decided by the two 'Date' values alone.
C11_HttpErrorIsAResponse ==
    /\ [][(pc = "fire_urlopen" /\ pair[cur].response = NoResponse
                /\ pair'[cur].response.kind = "HTTPError") =>
            /\ pc' = "fire_end"
            /\ outcome' = outcome
            /\ pair'[cur].start_time = pair[cur].start_time
         ]_vars
    /\ [](\A r \in Requests :
            (life[r].state = "Fired" /\ pair[r].response.kind = "HTTPError") =>
                /\ pair[r].start_time # None
                /\ pair[r].end_time # None
                /\ pair[r].end_time >= pair[r].start_time
                /\ remote_time(pair[r]) # Raise("AttributeError")
                /\ remote_time(pair[r]) = remote_time(AsSuccess(pair[r]))
                /\ pair[r].response.lookup = "present" =>
                      remote_time(pair[r]) = ReturnTime(pair[r].response.date * MicrosPerSecond))
    /\ []((pc = "idle" /\ ctx = "is_useful"
              /\ pair.r1.response.lookup = "present" /\ pair.r1.response.kind # "None"
              /\ pair.r2.response.lookup = "present" /\ pair.r2.response.kind # "None") =>
            outcome = ReturnBool(pair.r2.response.date - pair.r1.response.date = 1))

\* a pair of two HTTP error responses, one second apart, judged useful
C11_Witness ==
    /\ pc = "idle"
    /\ ctx = "is_useful"
    /\ life.r1.state = "Fired"
    /\ life.r2.state = "Fired"
    /\ pair.r1.response.kind = "HTTPError"
    /\ pair.r2.response.kind = "HTTPError"
    /\ outcome = ReturnBool(TRUE)

\* C12: against a transport that raises nothing and keeps producing useful pairs,
\* every call of collect_data returns; once the last useful pair it needs has been
\* counted, the loop test ends the call without constructing or sending a pair.
C12_CollectDataReturns ==
    /\ (ctx = "collect_data" /\ pc = "cd_while") ~> Returned
    /\ [](pc = "cd_while" /\ n = 0 => ~ENABLED CdLoopEnter)
    /\ [][(pc = "cd_while" /\ n = 0) =>
            (Returned' /\ sent' = sent /\ nextId' = nextId /\ fires' = fires /\ rtts' = rtts)
         ]_vars
    /\ [][(pc = "cd_useful" /\ pc' = "cd_while" /\ n' = 0) => Len(log') = n0]_vars

\* a call of collect_data(2) that returned after an unusable pair and two useful ones
C12_Witness ==
    /\ Returned
    /\ n0 = 2
    /\ Len(sent) = 3
    /\ Len(log) = 2

----------------------------------------------------------------------------
\* the ranges of the two arguments: 0 .. 0xFFFFFFFF and 0 .. 0xFFFFF
MaxUnixTime == <<65535, 65535>>

MaxMicrosecs == <<15, 65535>>

AtMost(x, max) == x[1] < max[1] \/ (x[1] = max[1] /\ x[2] <= max[2])

InRange == AtMost(unix_time, MaxUnixTime) /\ AtMost(microsecs, MaxMicrosecs)

Nonnegative(x) == [kind |-> "return", neg |-> FALSE, val |-> x]

\* C13: for every unix_time in 0 .. 0xFFFFFFFF and microsecs in 0 .. 0xFFFFF,
\* uniqid2time(time2uniqid(unix_time, microsecs)) returns (unix_time, microsecs).
C13_RoundTrip ==
    (cpc = "roundtrip" /\ InRange) =>
        /\ decoded.kind = "return"
        /\ decoded.unix_time = Nonnegative(unix_time)
        /\ decoded.microsecs = Nonnegative(microsecs)

C13_Witness ==
    /\ cpc = "roundtrip"
    /\ unix_time = <<24414, 4096>>
    /\ microsecs = <<15, 65535>>
    /\ decoded.kind = "return"
    /\ decoded.unix_time.val = <<24414, 4096>>
    /\ decoded.microsecs.val = <<15, 65535>>

IsLowerHex(c) == \E i \in 1 .. 16 : HexLower[i] = c

Zeros(k) == [i \in 1 .. k |-> "0"]

\* C14: for arguments in range time2uniqid returns exactly 13 lowercase hexadecimal
\* characters, the first 8 the seconds and the last 5 the microseconds, each padded
\* with zeros on the left; (0, 0) gives 0000000000000 and (1, 1) gives 0000000100001.
C14_FixedWidth ==
    (cpc \in {"encoded", "roundtrip"} /\ InRange) =>
        /\ Len(uniqid) = 13
        /\ \A i \in 1 .. Len(uniqid) : IsLowerHex(uniqid[i])
        /\ Accum(UpTo(uniqid, 8), <<0, 0>>) = unix_time
        /\ Accum(Last(uniqid, 5), <<0, 0>>) = microsecs
        /\ (unix_time = <<0, 0>> /\ microsecs = <<0, 0>>) => uniqid = Zeros(13)
        /\ (unix_time = <<0, 1>> /\ microsecs = <<0, 1>>) =>
               uniqid = Zeros(7) \o <<"1">> \o Zeros(4) \o <<"1">>

C14_Witness ==
    /\ cpc = "encoded"
    /\ unix_time = <<0, 1>>
    /\ microsecs = <<0, 1>>
    /\ uniqid = <<"0", "0", "0", "0", "0", "0", "0", "1", "0", "0", "0", "0", "1">>

----------------------------------------------------------------------------
\* the two slices uniqid2time reads
Slices == {UpTo(uniqid, 8), Last(uniqid, 5)}

AllHex(str) == \A i \in 1 .. Len(str) : IsHexDigit(str[i])

\* characters int(str, 16) accepts somewhere in str
IntChars == {"x", "X", "+", "-", "_", " "}

HasForeignChar(str) == \E i \in 1 .. Len(str) : ~IsHexDigit(str[i]) /\ str[i] \notin IntChars

\* C15 as stated: uniqid2time raises ValueError for every token shorter than 13
\* characters and for every token with a character that is no hexadecimal digit
\* in its first 8 or its last 5 characters.
C15_RejectsShortAndNonHex ==
    (cpc = "decoded" /\ (Len(uniqid) < 13 \/ \E str \in Slices : ~AllHex(str))) =>
        decoded.kind = "raise"

\* C15, amended: uniqid2time checks no length.  It raises ValueError for the empty
\* token and for a token with a character in a slice that int(str, 16) accepts
\* nowhere; a token of hexadecimal digits is decoded whatever its length, each slice
\* read as a number; a 0x prefix and a sign are read as part of the number.
C15_RejectsWhatIntRejects ==
    cpc = "decoded" =>
        /\ uniqid = <<>> => decoded.kind = "raise"
        /\ (\E str \in Slices : HasForeignChar(str)) => decoded.kind = "raise"
        /\ (uniqid # <<>> /\ \A str \in Slices : AllHex(str)) =>
               /\ decoded.kind = "return"
               /\ decoded.unix_time = Nonnegative(Accum(UpTo(uniqid, 8), <<0, 0>>))
               /\ decoded.microsecs = Nonnegative(Accum(Last(uniqid, 5), <<0, 0>>))
        /\ uniqid = <<"0", "x", "1", "f">> =>
               /\ decoded.kind = "return"
               /\ decoded.unix_time = Nonnegative(<<0, 31>>)
               /\ decoded.microsecs = Nonnegative(<<0, 31>>)
        /\ uniqid = <<"-", "1">> =>
               /\ decoded.kind = "return"
               /\ decoded.unix_time = [kind |-> "return", neg |-> TRUE, val |-> <<0, 1>>]

C15_Witness ==
    /\ cpc = "decoded"
    /\ uniqid = <<"5", "f", "5">>
    /\ decoded.kind = "return"
    /\ decoded.unix_time.val = <<0, 1525>>
    /\ decoded.microsecs.val = <<0, 1525>>

----------------------------------------------------------------------------
\* the elapsed time of a request of the pair, in microseconds
Elapsed(r) == pair[r].end_time - pair[r].start_time

BothFired == \A r \in Requests : life[r].done = 1

\* C17: for a pair whose two requests have both been fired, avg_rtt is the mean of
\* the two elapsed times in seconds, (elapsed(r1) + elapsed(r2)) / 2; elapsed times
\* of 0.10 s and 0.14 s give 0.12.
C17_AvgRttIsMean ==
    (ctx = "avg_rtt" /\ pc = "idle" /\ BothFired) =>
        /\ outcome.kind = "return"
        /\ outcome.type = "float"
        /\ outcome.den > 0
        /\ outcome.num * 2 * MicrosPerSecond = outcome.den * (Elapsed("r1") + Elapsed("r2"))
        /\ (Elapsed("r1") = 100000 /\ Elapsed("r2") = 140000) =>
               (outcome.num = 3 /\ outcome.den = 25)

C17_Witness ==
    /\ ctx = "avg_rtt"
    /\ pc = "idle"
    /\ BothFired
    /\ Elapsed("r1") = 100000
    /\ Elapsed("r2") = 140000
    /\ outcome = ReturnFloat(<<3, 25>>)

----------------------------------------------------------------------------
\* collect_data(n), n >= 1, is running and has not met a useful pair yet
Retrying == ctx = "collect_data" /\ n0 >= 1 /\ log = <<>> /\ pc # "idle"

\* C18: collect_data has no retry cap.  As long as every pair is unusable and no
\* request fails, collect_data(n) with n >= 1 neither returns nor raises and leaves
\* rtts and n as they were; after an unusable pair it is back at the loop test,
\* where it cannot return and sends a new pair, however many pairs it has sent.
C18_NoRetryCap ==
    /\ [](Retrying =>
            /\ outcome = NoOutcome
            /\ rtts = pre
            /\ n = n0
            /\ pc = "cd_while" =>
                /\ ~ENABLED CdReturn
                /\ (nextId <= MaxPairs /\ fires < MaxFires) => ENABLED CdLoopEnter)
    /\ [][(Retrying /\ pc = "cd_useful" /\ is_useful(pair) = ReturnBool(FALSE)) =>
            (Retrying' /\ pc' = "cd_while" /\ sent' = sent)]_vars
    /\ [][(Retrying /\ ~Retrying') =>
            \/ pc = "fire_urlopen" /\ outcome' = Raise("URLError")
            \/ pc = "cd_useful" /\ is_useful(pair).kind = "raise"
            \/ pc = "cd_useful" /\ is_useful(pair) = ReturnBool(TRUE)]_vars

C18_Witness ==
    /\ Retrying
    /\ pc = "cd_while"
    /\ Len(sent) >= 3
    /\ rtts = pre
    /\ n = n0
    /\ outcome = NoOutcome

----------------------------------------------------------------------------
\* the only fire() of the request so far ended in a transport failure
HalfFired(r) == life[r] = [state |-> "Failed", done |-> 0]

\* C19: a fire() that ends in a transport failure leaves the request half-fired:
\* its start_time is recorded, its end_time and response are still unset, and
\* local_time_consumption and remote_time both still raise AttributeError.
C19_HalfFired ==
    /\ \A r \in Requests : HalfFired(r) =>
            /\ pair[r].start_time # None
            /\ pair[r].end_time = None
            /\ pair[r].response = NoResponse
    /\ (pc = "idle" /\ ctx \in {"local_time_consumption", "remote_time"} /\ HalfFired(cur)) =>
            outcome = Raise("AttributeError")

C19_Witness ==
    /\ pc = "idle"
    /\ ctx = "local_time_consumption"
    /\ HalfFired(cur)
    /\ pair[cur].start_time # None
    /\ pair[cur].end_time = None
    /\ outcome = Raise("AttributeError")

----------------------------------------------------------------------------
\* C20: collect_data(n) with n <= 0 returns at once: its first step is the return,
\* no pair is created or sent, no request is fired and rtts does not change.
C20_NothingToCollect ==
    /\ []((ctx = "collect_data" /\ n0 <= 0) =>
            /\ pc \in {"cd_while", "idle"}
            /\ sent = <<>>
            /\ pair = NoPair
            /\ rtts = pre
            /\ pc = "idle" => outcome = ReturnNone
            /\ pc = "cd_while" => (ENABLED CdReturn /\ ~ENABLED CdLoopEnter))
    /\ [][(ctx = "collect_data" /\ n0 <= 0 /\ pc = "cd_while") =>
            /\ Returned'
            /\ nextId' = nextId
            /\ fires' = fires
            /\ sent' = sent
            /\ rtts' = rtts]_vars

C20_Witness ==
    /\ Returned
    /\ n0 = -1
    /\ sent = <<>>
    /\ rtts = pre
    /\ Len(rtts) = 1

----------------------------------------------------------------------------
\* C16: with at least one sample, approximated_delta returns the mean of sample / 2
\* over all of rtts, that is (sum of rtts) / (2 * Len(rtts)); every sample appended
\* since the session was created counts, whichever collect_data call appended it;
\* for the samples 0.10 and 0.20 the value is 0.075 = 3/40.
C16_MeanOfHalves ==
    /\ (ctx = "approximated_delta" /\ pc = "idle" /\ Len(rtts) >= 1) =>
            /\ outcome.kind = "return"
            /\ outcome.type = "float"
            /\ outcome.den > 0
            /\ outcome.num * 2 * Len(rtts) * FracSum(rtts)[2] = outcome.den * FracSum(rtts)[1]
    /\ approximated_delta(<<Frac(10, 100), Frac(20, 100)>>) = ReturnFloat(Frac(75, 1000))

\* two samples, appended by two collect_data calls: (0.10 + 0.14) / 4 = 0.06
C16_Witness ==
    /\ ctx = "approximated_delta"
    /\ pc = "idle"
    /\ Len(pre) = 1
    /\ rtts = <<Frac(10, 100), Frac(14, 100)>>
    /\ outcome = ReturnFloat(Frac(6, 100))

====
